---- MODULE Spec2Model ----
(***************************************************************************)
(* State-machine model of src/bot.py: the sheet poller (poll_loop), the    *)
(* debounced pending queue and its flush (notify_subscribers, send_safe),  *)
(* and the subscriber registry (add_subscriber / remove_subscriber).       *)
(*                                                                         *)
(* Text.  A Python str is modelled as a sequence of segments               *)
(* [c |-> kind, n |-> count]: n consecutive characters of kind c.  Its     *)
(* length is the sum of the counts, so slicing at MAX_MESSAGE_LENGTH can   *)
(* be computed on strings of the real size without 4000-element            *)
(* sequences.  For the two notification prefixes the segment stands for    *)
(* the first n characters of the literal.                                  *)
(*                                                                         *)
(* Scheduling.  poll_loop and the message handlers are coroutines of one   *)
(* asyncio event loop: a handler runs only while poll_loop is suspended    *)
(* at an await (bot.send_message, asyncio.sleep).  pc is poll_loop's       *)
(* position.  Crash is the process being killed and started again.         *)
(*                                                                         *)
(* Time.  The program uses its timestamps only through differences with   *)
(* time.time() (ts <= time.time() - NOTIFY_DELAY), so a stored timestamp  *)
(* is kept as its age now - ts in whole seconds, and ages past AgeCap are  *)
(* kept as AgeCap: the clock itself is unbounded.                          *)
(*                                                                         *)
(* Storage.  orders and pending are the committed contents of orders.db;   *)
(* subscribers is the committed content of subs.db.  Writes made through   *)
(* a connection are visible in the stores only at conn.commit().  A        *)
(* connection abandoned by an exception keeps its open write transaction   *)
(* (and SQLite's write lock) until the interpreter finalises it: leak.     *)
(*                                                                         *)
(* Observation.  obs and req record what an observer outside the program  *)
(* has seen of the stores and of the handlers.  They are written only in   *)
(* the specifications that watch them (SpecObs, SpecKind, SpecReq); the    *)
(* program never reads them.                                               *)
(***************************************************************************)
EXTENDS Integers, Sequences, FiniteSets, TLC

(* ---------------------------------------------------------------- bounds *)
\* rows of the sheet
MaxRows == 2
\* chat ids are 1..MaxChat
MaxChat == 2
\* TelegramRetryAfter.retry_after is 1..MaxRetryAfter seconds
MaxRetryAfter == 1

(* ------------------------------------------------------------- constants *)
\* os.getenv("POLL_INTERVAL", "10"): seconds between cycles, taken from the
\* environment; configured to 1 here, so that two polls fall within NOTIFY_DELAY
POLL_INTERVAL == 1
\* os.getenv("NOTIFY_DELAY", "2")
NOTIFY_DELAY == 2
MAX_COLS == 25
MAX_MESSAGE_LENGTH == 4000
\* ages are told apart up to AgeCap
AgeCap == NOTIFY_DELAY

(* ------------------------------------------------------------------ text *)
Seg(c, n) == [c |-> c, n |-> n]

\* str.strip() removes these from both ends
Whitespace == {" "}

RECURSIVE TextLen(_)
TextLen(t) == IF t = <<>> THEN 0 ELSE Head(t).n + TextLen(Tail(t))

RECURSIVE LStrip(_)
LStrip(t) ==
    IF t = <<>> THEN <<>>
    ELSE IF Head(t).c \in Whitespace THEN LStrip(Tail(t)) ELSE t

RECURSIVE RStrip(_)
RStrip(t) ==
    IF t = <<>> THEN <<>>
    ELSE IF t[Len(t)].c \in Whitespace THEN RStrip(SubSeq(t, 1, Len(t) - 1)) ELSE t

Strip(t) == RStrip(LStrip(t))

\* text[:k]
RECURSIVE Slice(_, _)
Slice(t, k) ==
    IF t = <<>> \/ k <= 0 THEN <<>>
    ELSE IF Head(t).n <= k THEN <<Head(t)>> \o Slice(Tail(t), k - Head(t).n)
    ELSE <<Seg(Head(t).c, k)>>

Delimiter == <<Seg(" ", 1), Seg("|", 1), Seg(" ", 1)>>

\* " | ".join(parts)
RECURSIVE Join(_)
Join(parts) ==
    IF parts = <<>> THEN <<>>
    ELSE IF Len(parts) = 1 THEN parts[1]
    ELSE parts[1] \o Delimiter \o Join(Tail(parts))

\* the stripped, non-empty cells of row, in order
RECURSIVE Parts(_)
Parts(row) ==
    IF row = <<>> THEN <<>>
    ELSE LET s == Strip(Head(row))
         IN  (IF s # <<>> THEN <<s>> ELSE <<>>) \o Parts(Tail(row))

\* row[:MAX_COLS]
FirstCols(row) == SubSeq(row, 1, IF Len(row) < MAX_COLS THEN Len(row) ELSE MAX_COLS)

make_line(row) == Join(Parts(FirstCols(row)))

\* any(row): some cell is a non-empty string
AnyCell(row) == \E i \in 1..Len(row) : row[i] # <<>>

\* hashlib.sha256(...).hexdigest(): a digest, equal for equal lines and (no
\* collisions) different for different lines
make_hash(line) == [sha256 |-> line]

(* ------------------------------------------------------------- the sheet *)
Empty == <<>>
Spaces == <<Seg(" ", 1)>>
CellA == <<Seg(" ", 1), Seg("a", 1), Seg(" ", 1)>>
CellZ == <<Seg("z", 1)>>
CellLong == <<Seg("x", MAX_MESSAGE_LENGTH)>>
CellY == <<Seg(" ", 1), Seg("y", 1)>>

\* ["", " "]: not blank for any(), but no cell survives strip()
RowSpaces == <<Empty, Spaces>>
\* [" a ", "", ..., "", "z"] with "z" in column MAX_COLS + 1
RowA == [i \in 1..(MAX_COLS + 1) |->
            IF i = 1 THEN CellA ELSE IF i = MAX_COLS + 1 THEN CellZ ELSE Empty]
\* ["xxx...x" (MAX_MESSAGE_LENGTH times), " y"]
RowLong == <<CellLong, CellY>>

\* the raw rows ws.get_all_values() may return at a position
RawRows == {RowSpaces, RowA, RowLong}

RECURSIVE SeqsUpTo(_, _)
SeqsUpTo(S, k) ==
    IF k = 0 THEN {<<>>}
    ELSE LET shorter == SeqsUpTo(S, k - 1)
         IN  shorter \cup {Append(q, x) : q \in {r \in shorter : Len(r) = k - 1}, x \in S}

Snapshots == SeqsUpTo(RawRows, MaxRows)

\* make_line is pure: its values on the raw rows, computed once
LineOf == [r \in RawRows |-> make_line(r)]
Positions == 1..MaxRows
Chats == 1..MaxChat

(* ----------------------------------------------------------------- state *)
VARIABLES
    orders,       \* table orders:  row_index -> [hash, line, updated_ago]
    pending,      \* table pending: row_index -> [hash, line, ts_ago, is_new]
    subscribers,  \* table subscribers: chat_id rows in rowid order
    FIRST_RUN,    \* the module global
    pc,           \* poll_loop: "cycle", "notify", "send", "backoff", "tail", "sleep";
                  \* "dead" would be the task ended by an exception
    leak,         \* row_index values written in an abandoned open transaction
    nrows,        \* notify_subscribers' rows: the selected pending entries
    nsubs,        \* notify_subscribers' subs
    ei,           \* index into nrows of the entry being sent
    si,           \* index into nsubs of the subscriber being sent to
    ndel,         \* row_index values deleted in notify_subscribers' open transaction
    call,         \* the latest bot.send_message call of the pass and its result
    outbox,       \* <<row_index, chat_id>> of the calls of the pass that returned or failed
    passed,       \* a detection pass was committed since process start
    watch,        \* what is observed: "none", "obs", "kind" or "req"
    obs,          \* per position, what an observer of the stores has seen
    req           \* the latest subscribe / unsubscribe request and its answer

vars == <<orders, pending, subscribers, FIRST_RUN, pc, leak, nrows, nsubs, ei, si,
          ndel, call, outbox, passed, watch, obs, req>>

NoTx == {}
EmptyMap == [x \in {} |-> 0]
Put(f, k, v) == [x \in DOMAIN f \cup {k} |-> IF x = k THEN v ELSE f[x]]

\* (variant) the rows named are left in the table
Remove_kept(f, D) == f

\* DELETE FROM pending WHERE row_index = ?, for every row_index of D
Remove(f, D) == [x \in DOMAIN f \ D |-> f[x]]
Store == [orders |-> orders, pending |-> pending]
Min(a, b) == IF a < b THEN a ELSE b

(* ------------------------------------------------------- change detection *)
\* INSERT INTO orders(row_index, hash, line): updated_at takes its default, now
InsertOrder(st, idx, h, line) ==
    [st EXCEPT !.orders = Put(st.orders, idx, [hash |-> h, line |-> line, updated_ago |-> 0])]

\* (variant) the UPDATE matches no row
UpdateOrder_none(st, idx, h, line) == st

\* UPDATE orders SET hash, line, updated_at = now WHERE row_index = idx
UpdateOrder(st, idx, h, line) ==
    [st EXCEPT !.orders = Put(st.orders, idx, [hash |-> h, line |-> line, updated_ago |-> 0])]

\* (variant) a replaced entry keeps the kind of the entry it replaces
ReplacePending_first_kind(st, idx, h, line, isNew) ==
    [st EXCEPT !.pending =
        Put(st.pending, idx,
            [hash |-> h, line |-> line, ts_ago |-> 0,
             is_new |-> IF idx \in DOMAIN st.pending THEN st.pending[idx].is_new ELSE isNew])]

\* (variant) a replaced entry keeps the ts of the entry it replaces
ReplacePending_first_ts(st, idx, h, line, isNew) ==
    [st EXCEPT !.pending =
        Put(st.pending, idx,
            [hash |-> h, line |-> line, is_new |-> isNew,
             ts_ago |-> IF idx \in DOMAIN st.pending THEN st.pending[idx].ts_ago ELSE 0])]

\* INSERT OR REPLACE INTO pending, ts = time.time(): row_index is the primary key
ReplacePending(st, idx, h, line, isNew) ==
    [st EXCEPT !.pending =
        Put(st.pending, idx, [hash |-> h, line |-> line, ts_ago |-> 0, is_new |-> isNew])]

\* (variant) a row without content takes its record out of orders
ProcessRow_prune(st, idx, row, firstRun) ==
    IF ~AnyCell(row) \/ LineOf[row] = <<>>
    THEN [st EXCEPT !.orders = Remove(st.orders, {idx})]
    ELSE LET line == LineOf[row]
             h == make_hash(line)
         IN  IF idx \notin DOMAIN st.orders
             THEN IF ~firstRun
                  THEN ReplacePending(InsertOrder(st, idx, h, line), idx, h, line, 1)
                  ELSE InsertOrder(st, idx, h, line)
             ELSE IF st.orders[idx].hash # h
                  THEN ReplacePending(UpdateOrder(st, idx, h, line), idx, h, line, 0)
             ELSE st

\* (variant) a recorded row is rewritten whether or not its hash differs
ProcessRow_rewrite(st, idx, row, firstRun) ==
    IF ~AnyCell(row) THEN st
    ELSE LET line == LineOf[row]
             h == make_hash(line)
         IN  IF line = <<>> THEN st
             ELSE IF idx \notin DOMAIN st.orders
                  THEN IF ~firstRun
                       THEN ReplacePending(InsertOrder(st, idx, h, line), idx, h, line, 1)
                       ELSE InsertOrder(st, idx, h, line)
             ELSE IF st.orders[idx].hash # h
                  THEN ReplacePending(UpdateOrder(st, idx, h, line), idx, h, line, 0)
             ELSE UpdateOrder(st, idx, h, line)

\* the body of the for loop of poll_loop for one row, inside the open transaction
ProcessRow(st, idx, row, firstRun) ==
    IF ~AnyCell(row) THEN st
    ELSE LET line == LineOf[row]
             h == make_hash(line)
         IN  IF line = <<>> THEN st
             ELSE IF idx \notin DOMAIN st.orders
                  THEN IF ~firstRun
                       THEN ReplacePending(InsertOrder(st, idx, h, line), idx, h, line, 1)
                       ELSE InsertOrder(st, idx, h, line)
             ELSE IF st.orders[idx].hash # h
                  THEN ReplacePending(UpdateOrder(st, idx, h, line), idx, h, line, 0)
             ELSE st

\* rows 1..upto of the snapshot processed in order
RECURSIVE ProcessRows(_, _, _, _)
ProcessRows(st, snapshot, upto, firstRun) ==
    IF upto = 0 THEN st
    ELSE ProcessRow(ProcessRows(st, snapshot, upto - 1, firstRun),
                    upto, snapshot[upto], firstRun)

\* a whole detection pass over a snapshot
DetectionPass(st, snapshot, firstRun) ==
    ProcessRows(st, snapshot, Len(snapshot), firstRun)

\* the row_index values a transaction that turns the tables from st into tx wrote
Written(st, tx) ==
    {p \in Positions :
        \/ (p \in DOMAIN tx.orders) # (p \in DOMAIN st.orders)
        \/ (p \in DOMAIN tx.pending) # (p \in DOMAIN st.pending)
        \/ p \in DOMAIN tx.orders /\ p \in DOMAIN st.orders /\ tx.orders[p] # st.orders[p]
        \/ p \in DOMAIN tx.pending /\ p \in DOMAIN st.pending /\ tx.pending[p] # st.pending[p]}

\* (variant) no except clause: the exception ends the task
ExceptClause_absent == pc' = "dead"

\* except Exception: logger.exception(...) -- the loop goes on after the try
ExceptClause == pc' = "tail"

\* if FIRST_RUN: FIRST_RUN = False
ClearFirstRun == FIRST_RUN' = FALSE

(* ------------------------------------------------------------ subscribers *)
\* the sequence q with x put at its place in ascending order
RECURSIVE SortedInsert(_, _)
SortedInsert(q, x) ==
    IF q = <<>> THEN <<x>>
    ELSE IF x < Head(q) THEN <<x>> \o q
    ELSE <<Head(q)>> \o SortedInsert(Tail(q), x)

InTable(q, x) == \E i \in 1..Len(q) : q[i] = x

\* (variant) a plain INSERT into a table without the primary key
add_subscriber_plain(q, chat_id) == SortedInsert(q, chat_id)

\* INSERT OR IGNORE INTO subscribers(chat_id): chat_id is the primary key
add_subscriber(q, chat_id) == IF InTable(q, chat_id) THEN q ELSE SortedInsert(q, chat_id)

\* DELETE FROM subscribers WHERE chat_id = ?
remove_subscriber(q, chat_id) == SelectSeq(q, LAMBDA c : c # chat_id)

\* SELECT chat_id FROM subscribers
get_subscribers == subscribers

(* --------------------------------------------------------------- dispatch *)
NewPrefix == <<Seg("NEW_ORDER_PREFIX", 15)>>
UpdatedPrefix == <<Seg("UPDATED_ORDER_PREFIX", 18)>>

\* (variant) every message carries the marker of a new order
Message_new_marker(line, isNew) == NewPrefix \o line

\* msg of notify_subscribers
Message(line, isNew) == (IF isNew = 1 THEN NewPrefix ELSE UpdatedPrefix) \o line

\* the text send_safe hands to bot.send_message
SentText(text) ==
    IF TextLen(text) > MAX_MESSAGE_LENGTH THEN Slice(text, MAX_MESSAGE_LENGTH) ELSE text

\* (variant) the SELECT has no WHERE clause
OldEnough_any(entry) == TRUE

\* WHERE ts <= time.time() - NOTIFY_DELAY
OldEnough(entry) == entry.ts_ago >= NOTIFY_DELAY

\* SELECT row_index, line, is_new FROM pending WHERE ..., in rowid order
RECURSIVE SelectPending(_, _)
SelectPending(pend, from) ==
    IF from > MaxRows THEN <<>>
    ELSE (IF from \in DOMAIN pend /\ OldEnough(pend[from])
          THEN <<[row_index |-> from, line |-> pend[from].line, is_new |-> pend[from].is_new]>>
          ELSE <<>>) \o SelectPending(pend, from + 1)

Eligible(pend) == SelectPending(pend, 1)

RowIndexes(q) == {q[i].row_index : i \in 1..Len(q)}

\* (variant) the DELETE sits inside the loop over subs
LastSubscriber_any == TRUE

\* for chat_id in subs: the subscriber being sent to is the last of the loop
LastSubscriber == si = Len(nsubs)

\* (variant) the loop over rows ends after its first entry
LastEntry_any == TRUE

\* for row_index, line, is_new in rows: the entry being sent is the last of the loop
LastEntry == ei = Len(nrows)

(* ------------------------------------------------------------ observation *)
\* Per position:
\*   dets       changes detected and committed since the last flush (2 = two or more)
\*   detAgo     age of the latest of them, detLine its normalized content
\*   seen       "new" once the position was detected as new outside quiet start,
\*              "edited" once a later content change was detected
\*   newFlushes flushes of an entry of kind New committed so far (2 = two or more)
\* and, when the kinds of the messages are watched (watch = "kind"):
\*   seen       "new" as above, "replaced" once a content change was detected
\*              while the entry of kind New was still in the pending table,
\*              "edited" once one was detected after that entry had left it
\*   newSent    a send_message call with the marker of a new order was made
\*              for the position and returned or failed
NoObs ==
    [dets |-> 0, detAgo |-> 0, detLine |-> <<>>, seen |-> "no", newFlushes |-> 0,
     newSent |-> FALSE]

LineAt(snapshot, p) == IF p <= Len(snapshot) THEN LineOf[snapshot[p]] ELSE <<>>

\* the snapshot has content at a position the store has no record of
IsNewPosition(snapshot, ords, p) == LineAt(snapshot, p) # <<>> /\ p \notin DOMAIN ords

\* the snapshot has content at p other than the content recorded
IsEdit(snapshot, ords, p) ==
    LineAt(snapshot, p) # <<>> /\ p \in DOMAIN ords /\ ords[p].line # LineAt(snapshot, p)

ObserveDetect(o, snapshot, ords, firstRun) ==
    [p \in Positions |->
        IF IsEdit(snapshot, ords, p) \/ (IsNewPosition(snapshot, ords, p) /\ ~firstRun)
        THEN [o[p] EXCEPT !.dets = Min(2, @ + 1),
                          !.detAgo = 0,
                          !.detLine = LineAt(snapshot, p),
                          !.seen = IF IsNewPosition(snapshot, ords, p) THEN "new"
                                   ELSE IF @ = "new" THEN "edited" ELSE @]
        ELSE o[p]]

ObserveFlush(o, pend, D) ==
    [p \in Positions |->
        IF p \in D
        THEN [o[p] EXCEPT !.dets = 0, !.detAgo = 0, !.detLine = <<>>,
                          !.newFlushes = Min(2, @ + pend[p].is_new)]
        ELSE o[p]]

ObserveKind(o, snapshot, ords, pend, firstRun) ==
    [p \in Positions |->
        IF IsNewPosition(snapshot, ords, p) /\ ~firstRun
        THEN [o[p] EXCEPT !.seen = "new"]
        ELSE IF IsEdit(snapshot, ords, p) /\ o[p].seen = "new"
        THEN [o[p] EXCEPT !.seen = IF p \in DOMAIN pend /\ pend[p].is_new = 1
                                   THEN "replaced" ELSE "edited"]
        ELSE o[p]]

\* a call for entry has returned or failed
ObserveCall(o, entry) ==
    IF watch = "kind" /\ entry.is_new = 1
    THEN [o EXCEPT ![entry.row_index].newSent = TRUE]
    ELSE o

NoReq == [op |-> "none", chat_id |-> 0, member |-> FALSE, answer |-> "none"]

(* ------------------------------------------------------------------- time *)
Older(ago, d) == Min(AgeCap, ago + d)

\* d seconds pass: every stored timestamp is d seconds older
AgedOrders(ords, d) == [p \in DOMAIN ords |-> [ords[p] EXCEPT !.updated_ago = Older(@, d)]]
AgedPending(pend, d) == [p \in DOMAIN pend |-> [pend[p] EXCEPT !.ts_ago = Older(@, d)]]
AgedObs(o, d) ==
    [p \in Positions |-> IF o[p].dets > 0 THEN [o[p] EXCEPT !.detAgo = Older(@, d)] ELSE o[p]]

Elapse(d) ==
    /\ orders' = AgedOrders(orders, d)
    /\ pending' = AgedPending(pending, d)
    /\ obs' = AgedObs(obs, d)

(* ------------------------------------------------------------------- Init *)
NoCall == [row_index |-> 0, chat_id |-> 0, text |-> <<>>, res |-> "none"]

\* the first start of the program: init_db_orders and init_db_subs have
\* created empty tables
Boot(w) ==
    /\ orders = EmptyMap
    /\ pending = EmptyMap
    /\ subscribers = <<>>
    /\ FIRST_RUN = TRUE
    /\ pc = "cycle"
    /\ leak = NoTx
    /\ nrows = <<>>
    /\ nsubs = <<>>
    /\ ei = 0
    /\ si = 0
    /\ ndel = {}
    /\ call = NoCall
    /\ outbox = <<>>
    /\ passed = FALSE
    /\ watch = w
    /\ obs = [p \in Positions |-> NoObs]
    /\ req = NoReq

Init == Boot("none")
InitObs == Boot("obs")
InitReq == Boot("req")
InitKind == Boot("kind")

(* -------------------------------------------------------------- poll_loop *)
\* poll_loop is suspended at an await: the event loop may run a handler
Suspended == pc \in {"send", "backoff", "sleep"}

\* (variant) a failed pull is taken for an empty sheet and the queue dropped
SourceFail_drop ==
    /\ pc = "cycle"
    /\ pending' = EmptyMap
    /\ ExceptClause
    /\ UNCHANGED <<orders, subscribers, FIRST_RUN, leak, nrows, nsubs, ei, si,
                   ndel, call, outbox, passed, watch, obs, req>>

\* get_sheet() or ws.get_all_values() raises: the except clause logs, the
\* cycle goes on after the try statement
SourceFail ==
    /\ pc = "cycle"
    /\ ExceptClause
    /\ UNCHANGED <<orders, pending, subscribers, FIRST_RUN, leak, nrows, nsubs, ei, si,
                   ndel, call, outbox, passed, watch, obs, req>>

\* lines 204-259 run to conn.commit() on the snapshot pulled.  Another
\* connection's open write transaction makes the first write raise "database
\* is locked", so the pass commits only if no such transaction is open or the
\* pass writes nothing.
DetectOK ==
    /\ pc = "cycle"
    /\ \E snapshot \in Snapshots :
          LET st == DetectionPass(Store, snapshot, FIRST_RUN)
          IN  /\ leak = NoTx \/ st = Store
              /\ orders' = st.orders
              /\ pending' = st.pending
              /\ obs' = IF watch = "obs"
                        THEN ObserveDetect(obs, snapshot, orders, FIRST_RUN)
                        ELSE IF watch = "kind"
                        THEN ObserveKind(obs, snapshot, orders, pending, FIRST_RUN)
                        ELSE obs
    /\ passed' = TRUE
    /\ pc' = "notify"
    /\ UNCHANGED <<subscribers, FIRST_RUN, leak, nrows, nsubs, ei, si,
                   ndel, call, outbox, watch, req>>

\* An exception is raised while row k is processed (k = Len(rows) + 1: by
\* conn.commit()).  The writes of rows 1..k-1 stay in the transaction of the
\* connection, which is neither committed nor closed.
DetectFault ==
    /\ pc = "cycle"
    /\ \E snapshot \in Snapshots, k \in 1..(MaxRows + 1) :
          LET st == ProcessRows(Store, snapshot, k - 1, FIRST_RUN)
          IN  /\ k <= Len(snapshot) + 1
              /\ leak = NoTx \/ st = Store
              /\ leak' = IF leak # NoTx THEN leak ELSE Written(Store, st)
    /\ ExceptClause
    /\ UNCHANGED <<orders, pending, subscribers, FIRST_RUN, nrows, nsubs, ei, si,
                   ndel, call, outbox, passed, watch, obs, req>>

(* ---------------------------------------------------- notify_subscribers *)
\* (variant) a pass without subscribers returns before the loop over rows
NotifyBegin_return_early ==
    /\ pc = "notify"
    /\ LET sel == Eligible(pending)
           subs == get_subscribers
       IN  /\ nrows' = sel
           /\ nsubs' = subs
           /\ IF sel = <<>> \/ subs = <<>>
              THEN /\ pc' = "tail"
                   /\ ei' = 0
                   /\ si' = 0
              ELSE /\ pc' = "send"
                   /\ ei' = 1
                   /\ si' = 1
    /\ UNCHANGED <<orders, pending, subscribers, FIRST_RUN, leak, ndel, call, outbox,
                   passed, watch, obs, req>>

\* lines 276-288, and when there is nothing to send the rest of the pass:
\* every selected entry deleted, conn.commit()
NotifyBegin ==
    /\ pc = "notify"
    /\ LET sel == Eligible(pending)
           subs == get_subscribers
       IN  /\ nrows' = sel
           /\ nsubs' = subs
           /\ IF sel = <<>> \/ subs = <<>>
              THEN /\ sel = <<>> \/ leak = NoTx
                   /\ pending' = Remove(pending, RowIndexes(sel))
                   /\ obs' = IF watch = "obs"
                             THEN ObserveFlush(obs, pending, RowIndexes(sel)) ELSE obs
                   /\ pc' = "tail"
                   /\ ei' = 0
                   /\ si' = 0
              ELSE /\ pc' = "send"
                   /\ ei' = 1
                   /\ si' = 1
                   /\ UNCHANGED <<pending, obs>>
    /\ UNCHANGED <<orders, subscribers, FIRST_RUN, leak, ndel, call, outbox, passed,
                   watch, req>>

\* get_conn, the SELECT or get_subscribers raises, or (no subscribers) the
\* first DELETE does: nothing was written, poll_loop's except clause logs
NotifyFault ==
    /\ pc = "notify"
    /\ ExceptClause
    /\ UNCHANGED <<orders, pending, subscribers, FIRST_RUN, leak, nrows, nsubs, ei, si,
                   ndel, call, outbox, passed, watch, obs, req>>

\* msg for the entry, as send_safe passes it on
TextOf(entry) == SentText(Message(entry.line, entry.is_new))

Call(res) ==
    [row_index |-> nrows[ei].row_index, chat_id |-> nsubs[si],
     text |-> TextOf(nrows[ei]), res |-> res]

\* bot.send_message returns ("ok") or raises something other than
\* TelegramRetryAfter ("failure", logged by send_safe).  After the last
\* subscriber the entry is deleted; after the last entry conn.commit().
SendResult ==
    /\ pc = "send"
    /\ \E res \in {"ok", "failure"} : call' = Call(res)
    /\ outbox' = Append(outbox, <<nrows[ei].row_index, nsubs[si]>>)
    /\ IF ~LastSubscriber
       THEN /\ si' = si + 1
            /\ obs' = ObserveCall(obs, nrows[ei])
            /\ UNCHANGED <<pending, pc, ei, ndel>>
       ELSE /\ leak = NoTx
            /\ IF ~LastEntry
               THEN /\ ndel' = ndel \cup {nrows[ei].row_index}
                    /\ ei' = ei + 1
                    /\ si' = 1
                    /\ obs' = ObserveCall(obs, nrows[ei])
                    /\ UNCHANGED <<pending, pc>>
               ELSE /\ pending' = Remove(pending, ndel \cup {nrows[ei].row_index})
                    /\ obs' = IF watch = "obs"
                              THEN ObserveFlush(obs, pending, ndel \cup {nrows[ei].row_index})
                              ELSE ObserveCall(obs, nrows[ei])
                    /\ ndel' = {}
                    /\ pc' = "tail"
                    /\ UNCHANGED <<ei, si>>
    /\ UNCHANGED <<orders, subscribers, FIRST_RUN, leak, nrows, nsubs, passed, watch, req>>

\* bot.send_message raises TelegramRetryAfter: send_safe sleeps retry_after
SendRetryAfter ==
    /\ pc = "send"
    /\ call' = Call("retry_after")
    /\ pc' = "backoff"
    /\ UNCHANGED <<orders, pending, subscribers, FIRST_RUN, leak, nrows, nsubs, ei, si,
                   ndel, outbox, passed, watch, obs, req>>

\* (variant) after the sleep the loop over subs starts again
BackoffDone_from_first ==
    /\ pc = "backoff"
    /\ \E d \in 1..MaxRetryAfter : Elapse(d)
    /\ pc' = "send"
    /\ si' = 1
    /\ UNCHANGED <<subscribers, FIRST_RUN, leak, nrows, nsubs, ei,
                   ndel, call, outbox, passed, watch, req>>

\* the sleep is over: send_safe calls itself with the same chat_id and text
BackoffDone ==
    /\ pc = "backoff"
    /\ \E d \in 1..MaxRetryAfter : Elapse(d)
    /\ pc' = "send"
    /\ UNCHANGED <<subscribers, FIRST_RUN, leak, nrows, nsubs, ei, si,
                   ndel, call, outbox, passed, watch, req>>

\* lines 190-191 raise (the sleep, or the depth of the recursion): the handler
\* of the except clause is not inside the try, so the exception leaves
\* send_safe and notify_subscribers in the middle of the fan-out
BackoffAbort ==
    /\ pc = "backoff"
    /\ leak' = IF leak # NoTx THEN leak ELSE ndel
    /\ ndel' = {}
    /\ ExceptClause
    /\ UNCHANGED <<orders, pending, subscribers, FIRST_RUN, nrows, nsubs, ei, si,
                   call, outbox, passed, watch, obs, req>>

\* After the last send of an entry the DELETE raises, or after the last
\* entry conn.commit() does: the exception leaves notify_subscribers, whose
\* connection keeps the uncommitted deletes; poll_loop's except clause logs.
SendAbort ==
    /\ pc = "send"
    /\ LastSubscriber
    /\ \E res \in {"ok", "failure"} : call' = Call(res)
    /\ outbox' = Append(outbox, <<nrows[ei].row_index, nsubs[si]>>)
    /\ \E D \in {ndel} \cup (IF LastEntry THEN {ndel \cup {nrows[ei].row_index}} ELSE {}) :
          /\ leak = NoTx \/ D = {}
          /\ leak' = IF leak # NoTx THEN leak ELSE D
    /\ ndel' = {}
    /\ obs' = ObserveCall(obs, nrows[ei])
    /\ ExceptClause
    /\ UNCHANGED <<orders, pending, subscribers, FIRST_RUN, nrows, nsubs, ei, si,
                   passed, watch, req>>

\* lines 266-269: after the try statement, whichever way it ended, the flag
\* is cleared and the loop sleeps; the locals of the pass are dead
CycleEnd ==
    /\ pc = "tail"
    /\ ClearFirstRun
    /\ pc' = "sleep"
    /\ nrows' = <<>>
    /\ nsubs' = <<>>
    /\ ei' = 0
    /\ si' = 0
    /\ call' = NoCall
    /\ outbox' = <<>>
    /\ UNCHANGED <<orders, pending, subscribers, leak, ndel, passed, watch, obs, req>>

\* await asyncio.sleep(POLL_INTERVAL) is over: the next iteration
SleepDone ==
    /\ pc = "sleep"
    /\ Elapse(POLL_INTERVAL)
    /\ pc' = "cycle"
    /\ UNCHANGED <<subscribers, FIRST_RUN, leak, nrows, nsubs, ei, si,
                   ndel, call, outbox, passed, watch, req>>

(* ------------------------------------------------------------ environment *)
Request(op, x, answer) ==
    IF watch = "req"
    THEN [op |-> op, chat_id |-> x, member |-> InTable(subscribers, x), answer |-> answer]
    ELSE req

\* (variant) the pass in progress sees the new subscriber
Subscribe_seen_by_pass ==
    /\ Suspended
    /\ \E x \in Chats :
          /\ subscribers' = add_subscriber(subscribers, x)
          /\ nsubs' = IF pc = "sleep" THEN nsubs ELSE add_subscriber(nsubs, x)
          /\ req' = Request("subscribe", x, "subscribed")
    /\ UNCHANGED <<orders, pending, FIRST_RUN, pc, leak, nrows, ei, si,
                   ndel, call, outbox, passed, watch, obs>>

\* handle_message, text == "Подписаться на рассылку"
Subscribe ==
    /\ Suspended
    /\ \E x \in Chats :
          /\ subscribers' = add_subscriber(subscribers, x)
          /\ req' = Request("subscribe", x, "subscribed")
    /\ UNCHANGED <<orders, pending, FIRST_RUN, pc, leak, nrows, nsubs, ei, si,
                   ndel, call, outbox, passed, watch, obs>>

\* handle_message, text == "Отписаться от рассылки"
Unsubscribe ==
    /\ Suspended
    /\ \E x \in Chats :
          /\ subscribers' = remove_subscriber(subscribers, x)
          /\ req' = Request("unsubscribe", x, "unsubscribed")
    /\ UNCHANGED <<orders, pending, FIRST_RUN, pc, leak, nrows, nsubs, ei, si,
                   ndel, call, outbox, passed, watch, obs>>

\* the interpreter finalises the abandoned connection: its transaction is
\* rolled back and the write lock released
Finalize ==
    /\ leak # NoTx
    /\ leak' = NoTx
    /\ UNCHANGED <<orders, pending, subscribers, FIRST_RUN, pc, nrows, nsubs, ei, si,
                   ndel, call, outbox, passed, watch, obs, req>>

\* the process dies and main() runs again: module globals and locals are
\* fresh, open transactions are gone, the committed tables are as they were
Crash ==
    /\ FIRST_RUN' = TRUE
    /\ pc' = "cycle"
    /\ leak' = NoTx
    /\ nrows' = <<>>
    /\ nsubs' = <<>>
    /\ ei' = 0
    /\ si' = 0
    /\ ndel' = {}
    /\ call' = NoCall
    /\ outbox' = <<>>
    /\ passed' = FALSE
    /\ req' = NoReq
    /\ UNCHANGED <<orders, pending, subscribers, watch, obs>>

Next ==
    \/ SourceFail
    \/ DetectOK
    \/ DetectFault
    \/ NotifyBegin
    \/ NotifyFault
    \/ SendResult
    \/ SendRetryAfter
    \/ BackoffDone
    \/ BackoffAbort
    \/ SendAbort
    \/ CycleEnd
    \/ SleepDone
    \/ Subscribe
    \/ Unsubscribe
    \/ Finalize
    \/ Crash

Spec == Init /\ [][Next]_vars
SpecObs == InitObs /\ [][Next]_vars
SpecReq == InitReq /\ [][Next]_vars
SpecKind == InitKind /\ [][Next]_vars

\* The interpreter runs poll_loop on: it does not stop between two statements,
\* the timers of asyncio.sleep fire, and the abandoned connection is
\* finalised.  Strong fairness of SendResult: the transport does not answer
\* every call with TelegramRetryAfter.
Progress ==
    /\ WF_vars(DetectOK)
    /\ WF_vars(NotifyBegin)
    /\ SF_vars(SendResult)
    /\ WF_vars(BackoffDone)
    /\ WF_vars(CycleEnd)
    /\ WF_vars(SleepDone)
    /\ WF_vars(Finalize)

SpecLive == Init /\ [][Next]_vars /\ Progress

(* ------------------------------------------------------------- properties *)
\* the fan-out recorded in box reached chat for the entry of position p
Attempted(box, p, chat) == \E j \in 1..Len(box) : box[j] = <<p, chat>>

\* how many completed calls box holds for position p and chat
Attempts(box, p, chat) == Cardinality({j \in 1..Len(box) : box[j] = <<p, chat>>})

NoRepeat(q) == \A i, j \in 1..Len(q) : i # j => q[i] # q[j]

Members(q) == {q[i] : i \in 1..Len(q)}

\* the step takes the entry of position p out of the committed pending table
Removed(p) == p \in DOMAIN pending /\ p \notin DOMAIN pending'

\* the step is the start of a new process
Restart == pc' = "cycle" /\ FIRST_RUN' /\ ~passed' /\ call' = NoCall

Aged(st, d) == [orders |-> AgedOrders(st.orders, d), pending |-> AgedPending(st.pending, d)]

\* after the try statement the loop sleeps, after the sleep it starts a cycle
LoopGoesOn ==
    /\ pc = "tail" => pc' \in {"tail", "sleep"} \/ Restart
    /\ pc = "sleep" => pc' \in {"sleep", "cycle"}
    /\ (pc = "sleep" /\ pc' = "cycle" /\ ~Restart) =>
          /\ orders' = AgedOrders(orders, POLL_INTERVAL)
          /\ pending' = AgedPending(pending, POLL_INTERVAL)

\* C1: an entry leaves the pending table only in a step after which a send
\* of it has been attempted to every subscriber of the pass; a restart of
\* the process or a pass that ends with an exception leaves the committed
\* table as it was, and every pass that starts selects again each entry
\* that is old enough.
C1_DeleteAfterFanOut ==
    [][/\ \A p \in Positions :
              Removed(p) => \A i \in 1..Len(nsubs') : Attempted(outbox', p, nsubs'[i])
       /\ (Crash \/ SendAbort \/ BackoffAbort \/ NotifyFault) => pending' = pending
       /\ NotifyBegin =>
              \A p \in DOMAIN pending : OldEnough(pending[p]) => p \in RowIndexes(nrows')
      ]_vars

\* a pass with two subscribers has ended and its first entry is gone from
\* the table after a call for every entry and subscriber
C1_FannedOutThenDeleted ==
    /\ pc = "tail"
    /\ Len(nsubs) = 2
    /\ Len(nrows) >= 1
    /\ nrows[1].row_index \notin DOMAIN pending
    /\ Len(outbox) = 2 * Len(nrows)

C3_QuietStart ==
    [][(pc = "cycle" /\ pc' = "notify" /\ ~passed /\ orders = EmptyMap) =>
           pending' = EmptyMap]_vars

\* C4: FIRST_RUN is set as long as the process has not completed a
\* detection pass.
C4_FlagUntilFirstPass == ~passed => FIRST_RUN

\* C5: from every reachable store and for every snapshot, a detection pass
\* followed, any time later, by a pass on the same snapshot: the second
\* pass changes no row of orders (hash, line, updated_at) and no row of
\* pending.
C5_DetectionIdempotent ==
    \A snapshot \in Snapshots :
        LET st1 == DetectionPass(Store, snapshot, FIRST_RUN)
        IN  \A d \in 0..NOTIFY_DELAY, firstRun \in BOOLEAN :
                DetectionPass(Aged(st1, d), snapshot, firstRun) = Aged(st1, d)

\* a store with records from which a snapshot makes a pass insert one
\* record, rewrite another and queue an entry
C5_PassThatWrites ==
    /\ pc = "cycle"
    /\ \E snapshot \in Snapshots :
          LET st1 == DetectionPass(Store, snapshot, FIRST_RUN)
          IN  /\ DOMAIN st1.orders # DOMAIN orders
              /\ \E p \in DOMAIN orders : st1.orders[p].hash # orders[p].hash
              /\ st1.pending # pending

\* C6: a position detected as new outside the first run and not edited
\* since has its entry of kind new either in the pending table, no such
\* entry flushed yet, or out of the table, flushed once.
C6_OneNewFlush ==
    \A p \in Positions :
        obs[p].seen = "new" =>
            \/ /\ p \in DOMAIN pending
               /\ pending[p].is_new = 1
               /\ obs[p].newFlushes = 0
            \/ /\ p \notin DOMAIN pending
               /\ obs[p].newFlushes = 1

\* a detection pass has run long after the one flush of a new position
C6_FlushedOnceAndPolledAgain ==
    /\ pc = "notify"
    /\ \E p \in Positions :
          /\ obs[p].seen = "new"
          /\ obs[p].newFlushes = 1
          /\ orders[p].updated_ago >= NOTIFY_DELAY

\* A committed pass that changes the line of a recorded position queues an
\* entry of kind updated with the new line; a send of such an entry happens
\* once it is old enough, to a subscriber read at the start of the pass,
\* with the text Shape makes of the marker followed by the new line; and
\* the entry leaves the table after one call to each of those subscribers.
UpdatedDelivery(Shape(_)) ==
    /\ \A p \in DOMAIN orders :
          orders'[p].line # orders[p].line =>
             /\ p \in DOMAIN pending'
             /\ pending'[p] = [hash |-> orders'[p].hash, line |-> orders'[p].line,
                               ts_ago |-> 0, is_new |-> 0]
    /\ (pc = "send" /\ outbox' # outbox /\ call'.res # "none"
           /\ pending[call'.row_index].is_new = 0) =>
          /\ OldEnough(pending[call'.row_index])
          /\ InTable(nsubs, call'.chat_id)
          /\ call'.text = Shape(UpdatedPrefix \o orders[call'.row_index].line)
    /\ \A p \in Positions :
          (Removed(p) /\ pending[p].is_new = 0) =>
             \A i \in 1..Len(nsubs') : Attempts(outbox', p, nsubs'[i]) = 1

Whole(text) == text

\* C7 (as stated): ... every message of an updated entry is the marker
\* followed by the new normalized content.
C7_UpdatedDeliveryWhole == [][UpdatedDelivery(Whole)]_vars

\* C7 (amended): ... every message of an updated entry is the first
\* MAX_MESSAGE_LENGTH characters of the marker followed by the new
\* normalized content.
C7_UpdatedDelivery == [][UpdatedDelivery(SentText)]_vars

\* an updated entry too long for one message went to two subscribers and
\* left the table
C7_LongUpdateDelivered ==
    /\ pc = "tail"
    /\ Len(nsubs) = 2
    /\ Len(nrows) = 1
    /\ nrows[1].is_new = 0
    /\ TextLen(Message(nrows[1].line, 0)) > MAX_MESSAGE_LENGTH
    /\ call.res = "ok"
    /\ nrows[1].row_index \notin DOMAIN pending

\* C8: a cycle that ends with an exception before the detection pass has
\* committed changes no row of orders and no row of pending, the exception
\* goes no further than the except clause, and the loop sleeps and starts
\* the next cycle.
C8_SourceFailureSkipsCycle ==
    [][/\ (pc = "cycle" /\ pc' # "notify" /\ ~Restart) =>
              /\ orders' = orders
              /\ pending' = pending
              /\ pc' \in {"cycle", "tail"}
       /\ LoopGoesOn
      ]_vars

\* a new process found the tables filled, and its first cycle ended in the
\* except clause before any write
C8_SkippedWithStoresFilled ==
    /\ pc = "tail"
    /\ ~passed
    /\ leak = NoTx
    /\ orders # EmptyMap
    /\ pending # EmptyMap

\* C9: poll_loop never ends: from the detection pass and from the dispatch
\* pass control only moves on within the cycle or to the statements after
\* the try, and from there to the sleep and to the next cycle.
C9_LoopSurvivesFaults ==
    [][/\ pc' \in {"cycle", "notify", "send", "backoff", "tail", "sleep"}
       /\ pc = "cycle" => pc' \in {"cycle", "notify", "tail"}
       /\ pc = "notify" => pc' \in {"notify", "send", "tail"} \/ Restart
       /\ pc \in {"send", "backoff"} => pc' \in {"send", "backoff", "tail"} \/ Restart
       /\ LoopGoesOn
      ]_vars

\* a pass ended with an exception that left a transaction open, and the
\* loop is at the start of another cycle
C9_NextCycleAfterFault == pc = "cycle" /\ leak # NoTx

\* C10: the subscribers table never holds a chat_id twice; a subscribe
\* request adds its chat_id, changes nothing when the chat_id is there, and
\* a second one would change nothing; an unsubscribe request removes its
\* chat_id, and for a chat_id that is not there changes nothing and is
\* answered as any other.
C10_RegistryIdempotent ==
    [][/\ NoRepeat(subscribers')
       /\ (req' # req /\ req'.op = "subscribe") =>
              /\ Members(subscribers') = Members(subscribers) \cup {req'.chat_id}
              /\ req'.member => subscribers' = subscribers
              /\ add_subscriber(subscribers', req'.chat_id) = subscribers'
              /\ req'.answer = "subscribed"
       /\ (req' # req /\ req'.op = "unsubscribe") =>
              /\ Members(subscribers') = Members(subscribers) \ {req'.chat_id}
              /\ ~req'.member => subscribers' = subscribers
              /\ req'.answer = "unsubscribed"
      ]_vars

\* a chat that was subscribed has asked to subscribe again
C10_SubscribedTwice ==
    /\ req.op = "subscribe"
    /\ req.member
    /\ Len(subscribers) = 2

\* C11: a detection pass that an exception interrupts after it has written
\* rows leaves those writes committed: every position it wrote has in the
\* committed orders table a record the table did not hold before.
C11_PartialPassCommitted ==
    [][(pc = "cycle" /\ pc' = "tail" /\ leak = NoTx /\ leak' # NoTx) =>
           \A p \in leak' :
               /\ p \in DOMAIN orders'
               /\ p \in DOMAIN orders => orders'[p] # orders[p]]_vars

\* the step completes the call that retries the latest call, which was
\* answered with TelegramRetryAfter
RetryCompleted ==
    pc = "send" /\ call.res = "retry_after" /\ outbox' # outbox /\ call'.res # "none"

\* the pass ends in the except clause with the table as committed
PassAborted == pc' = "tail" /\ pending' = pending

\* After TelegramRetryAfter send_safe sleeps at least a second and calls
\* again for the same entry and subscriber; the call that retries has the
\* same chat_id and text; after it the fan-out goes on with the next
\* subscriber, the next entry, or the end of the pass.  Bounded: the call
\* that retries is not answered with TelegramRetryAfter again.
RetryAfterHandling(Bounded) ==
    /\ pc = "backoff" =>
          \/ pc' = "backoff"
          \/ /\ pc' = "send"
             /\ <<ei', si', nrows', nsubs'>> = <<ei, si, nrows, nsubs>>
             /\ \E d \in 1..MaxRetryAfter :
                   pending' = AgedPending(pending, d) /\ orders' = AgedOrders(orders, d)
          \/ PassAborted
          \/ Restart
    /\ RetryCompleted =>
          /\ <<call'.row_index, call'.chat_id, call'.text>>
                = <<call.row_index, call.chat_id, call.text>>
          /\ call'.res \in {"ok", "failure"}
          /\ IF ~LastSubscriber THEN pc' = "send" /\ ei' = ei /\ si' = si + 1
             ELSE IF ~LastEntry THEN (pc' = "send" /\ ei' = ei + 1 /\ si' = 1) \/ PassAborted
             ELSE pc' = "tail"
    /\ Bounded => ~(pc = "send" /\ call.res = "retry_after" /\ pc' = "backoff")

\* C12 (as stated): ... the message is retried once.
C12_RetryOnce == [][RetryAfterHandling(TRUE)]_vars

\* C12 (amended): ... the message is retried after every TelegramRetryAfter,
\* any number of times.
C12_RetryAfterEach == [][RetryAfterHandling(FALSE)]_vars

\* the call to the first of two subscribers for the first of two entries
\* was answered with TelegramRetryAfter, the sleep is over
C12_RetryDue ==
    /\ pc = "send"
    /\ call.res = "retry_after"
    /\ si = 1
    /\ ei = 1
    /\ Len(nsubs) = 2
    /\ Len(nrows) = 2

\* C13: a call that ends in a failure other than TelegramRetryAfter is the
\* only call of the pass for its entry and subscriber, no sleep and no
\* second call follow it, the fan-out goes on with the next subscriber or
\* the next entry, and after the last call of the pass every entry selected
\* is deleted, unless the DELETE or the commit itself raises.
C13_FailureNotRetried ==
    [][(pc = "send" /\ outbox' # outbox /\ call'.res = "failure") =>
          /\ call'.row_index = nrows[ei].row_index
          /\ call'.chat_id = nsubs[si]
          /\ Attempts(outbox', call'.row_index, call'.chat_id) = 1
          /\ IF si < Len(nsubs)
             THEN pc' = "send" /\ ei' = ei /\ si' = si + 1 /\ pending' = pending
             ELSE IF ei < Len(nrows)
             THEN (pc' = "send" /\ ei' = ei + 1 /\ si' = 1 /\ pending' = pending)
                     \/ PassAborted
             ELSE /\ pc' = "tail"
                  /\ pending' \in {Remove(pending, RowIndexes(nrows)), pending}
      ]_vars

\* the last call of a pass with two entries and two subscribers failed, and
\* both entries are gone from the table
C13_DeletedAfterFailure ==
    /\ pc = "tail"
    /\ call.res = "failure"
    /\ Len(nsubs) = 2
    /\ Len(nrows) = 2
    /\ Len(outbox) = 4
    /\ pending = EmptyMap

\* a step that ends a pass with an exception, or the process
Faulty == SourceFail \/ DetectFault \/ NotifyFault \/ SendAbort \/ BackoffAbort \/ Crash

\* the step writes no entry for position p into the pending table
NoChange(p) ==
    p \in DOMAIN pending' => p \in DOMAIN pending /\ pending'[p].line = pending[p].line

\* An entry written by the detection pass of a cycle has ts = now, is not
\* selected by the flush of that cycle, and only selected entries leave
\* the table: a position whose content differs at every pass keeps an entry.
EditedNotFlushed ==
    \A p \in Positions :
        /\ (pc = "cycle" /\ pc' = "notify" /\ p \in DOMAIN orders
              /\ orders'[p].line # orders[p].line) =>
              p \in DOMAIN pending' /\ pending'[p].ts_ago = 0
        /\ (pc = "notify" /\ p \in DOMAIN pending /\ pending[p].ts_ago < NOTIFY_DELAY) =>
              p \in DOMAIN pending' /\ p \notin RowIndexes(nrows')
        /\ Removed(p) => p \in RowIndexes(nrows') /\ pending[p].ts_ago >= NOTIFY_DELAY

\* C14: if from some time on no pass ends with an exception, the process is
\* not killed and the content of a position no longer changes, then from
\* some time on the position has no entry in the pending table; and an
\* entry written by the pass of a cycle is never flushed in that cycle.
C14_EventualDelivery ==
    /\ \A p \in Positions :
          (<>[][~Faulty /\ NoChange(p)]_vars) => <>[](p \notin DOMAIN pending)
    /\ [][EditedNotFlushed]_vars

\* the one entry of a pass, written NOTIFY_DELAY or more ago, has been sent
\* to the one subscriber and is gone from the table
C14_FlushedOnceQuiet ==
    /\ pc = "tail"
    /\ leak = NoTx
    /\ Len(nsubs) = 1
    /\ Len(nrows) = 1
    /\ Len(outbox) = 1
    /\ nrows[1].row_index \notin DOMAIN pending
    /\ orders[nrows[1].row_index].updated_ago >= NOTIFY_DELAY

\* C15: a pass reads the subscribers table once, when it starts: subs does
\* not change while the pass sends, whatever requests are served in
\* between; every call of the pass is for a chat_id of subs, and an entry
\* that leaves the table was sent to exactly the chat_ids of subs.
C15_SubscribersReadOnce ==
    [][/\ (pc = "notify" /\ pc' = "send") => nsubs' = subscribers
       /\ (pc \in {"send", "backoff"} /\ ~Restart) => nsubs' = nsubs
       /\ (pc = "send" /\ outbox' # outbox /\ call'.res # "none") =>
              InTable(nsubs, call'.chat_id)
       /\ \A p \in Positions :
              Removed(p) =>
                 \A chat \in Chats : Attempted(outbox', p, chat) <=> InTable(nsubs', chat)
      ]_vars

\* a pass has sent its entries to a chat that unsubscribed meanwhile and to
\* no other, while another chat subscribed
C15_ChangedDuringPass ==
    /\ pc = "tail"
    /\ nrows # <<>>
    /\ RowIndexes(nrows) \cap DOMAIN pending = {}
    /\ Len(outbox) = Len(nrows)
    /\ \E c, d \in Chats :
          /\ nsubs = <<c>>
          /\ subscribers = <<d>>
          /\ c # d

\* the rows of the two tables at position p
RowsAt(st, p) ==
    <<IF p \in DOMAIN st.orders THEN <<st.orders[p]>> ELSE <<>>,
      IF p \in DOMAIN st.pending THEN <<st.pending[p]>> ELSE <<>> >>

\* C16: no step takes a position out of orders; and from every reachable
\* store a detection pass on a snapshot that has, at a recorded position,
\* no content or the content recorded leaves the record and the pending
\* entry of that position as they are.
C16_RecordsKept ==
    /\ [][DOMAIN orders \subseteq DOMAIN orders']_vars
    /\ [](\A snapshot \in Snapshots, firstRun \in BOOLEAN :
             LET st1 == DetectionPass(Store, snapshot, firstRun)
             IN  \A p \in DOMAIN orders :
                     LineAt(snapshot, p) \in {<<>>, orders[p].line} =>
                         RowsAt(st1, p) = RowsAt(Store, p))

\* a later pass has committed and left both records, written long before,
\* and the empty pending table as they were
C16_PassLeftRecords ==
    /\ pc = "notify"
    /\ ~FIRST_RUN
    /\ pending = EmptyMap
    /\ DOMAIN orders = Positions
    /\ \A p \in Positions : orders[p].updated_ago >= NOTIFY_DELAY

\* C17: the first detection pass a process commits on a non-empty orders
\* table leaves the entry of every unchanged record as it was, queues an
\* entry of kind updated for every record whose line it changes, and
\* queues nothing for the positions it adds to orders.
C17_FirstPassAfterRestart ==
    [][(pc = "cycle" /\ pc' = "notify" /\ ~passed /\ orders # EmptyMap) =>
          \A p \in Positions :
              /\ (p \in DOMAIN orders /\ orders'[p] = orders[p]) =>
                    RowsAt([orders |-> orders', pending |-> pending'], p) = RowsAt(Store, p)
              /\ (p \in DOMAIN orders /\ orders'[p] # orders[p]) =>
                    p \in DOMAIN pending' /\ pending'[p].is_new = 0
              /\ (p \notin DOMAIN orders /\ p \in DOMAIN orders') =>
                    p \notin DOMAIN pending'
      ]_vars

\* C18: in every committed state each row of pending (one per row_index,
\* the primary key) has a row of orders with the same row_index, hash and
\* line, the hash being that of the line.
C18_StoreConsistent ==
    \A p \in DOMAIN pending :
        /\ p \in DOMAIN orders
        /\ orders[p].hash = pending[p].hash
        /\ orders[p].line = pending[p].line
        /\ pending[p].hash = make_hash(pending[p].line)

\* the table holds an entry of kind new and an entry of kind updated
C18_BothKindsQueued ==
    \E p, q \in DOMAIN pending : pending[p].is_new = 1 /\ pending[q].is_new = 0

\* C19 (as stated): a position whose content changed while its entry of
\* kind new was in the pending table has an entry of kind updated, if any,
\* and no call with the marker of a new order was ever made for it.
C19_NeverNewMarker ==
    \A p \in Positions :
        obs[p].seen = "replaced" =>
            /\ p \in DOMAIN pending => pending[p].is_new = 0
            /\ ~obs[p].newSent

\* C19 (amended): the change replaces the entry of kind new by one of kind
\* updated with ts = now; from then on the entry of the position is of kind
\* updated, every call for it carries the marker of an updated order, and
\* no call with the marker of a new order is made for it.  (Such calls may
\* have been made before the change, by a pass that did not commit.)
C19_ReplacedByUpdated ==
    [][\A p \in Positions :
          /\ (obs[p].seen = "new" /\ obs'[p].seen = "replaced") =>
                /\ p \in DOMAIN pending /\ pending[p].is_new = 1
                /\ pending'[p].is_new = 0 /\ pending'[p].ts_ago = 0
          /\ obs'[p].seen = "replaced" =>
                (p \in DOMAIN pending' => pending'[p].is_new = 0)
          /\ obs[p].seen = "replaced" =>
                /\ obs'[p].newSent = obs[p].newSent
                /\ (pc = "send" /\ outbox' # outbox /\ call'.res # "none"
                       /\ call'.row_index = p) =>
                      call'.text = SentText(UpdatedPrefix \o pending[p].line)
      ]_vars

\* a message with the marker of an updated order has been delivered for a
\* position whose entry of kind new was replaced, no call with the marker
\* of a new order having been made for it
C19_UpdatedSentForReplaced ==
    /\ pc = "send"
    /\ call.res = "ok"
    /\ obs[call.row_index].seen = "replaced"
    /\ ~obs[call.row_index].newSent
    /\ Head(call.text) = Head(UpdatedPrefix)

\* the positions whose entries are old enough for a flush
Due == {p \in DOMAIN pending : pending[p].ts_ago >= NOTIFY_DELAY}

\* C20: a pass that selects entries and reads an empty subscribers table
\* deletes every selected entry and makes no call; a pass that starts with
\* the table empty makes no call whatever else happens; and every call is
\* for an entry that is in the pending table, so an entry deleted is sent
\* to nobody afterwards.
C20_FlushWithoutSubscribers ==
    [][/\ (pc = "notify" /\ nrows' # <<>> /\ nsubs' = <<>>) =>
              /\ RowIndexes(nrows') = Due
              /\ pending' = Remove(pending, Due)
              /\ pc' = "tail"
              /\ outbox' = <<>> /\ call' = NoCall
       /\ (pc = "notify" /\ subscribers = <<>> /\ ~Restart) =>
              /\ pc' \in {"notify", "tail"}
              /\ outbox' = <<>> /\ call' = NoCall
       /\ (pc = "send" /\ outbox' # outbox /\ call'.res # "none") =>
              /\ call'.row_index \in DOMAIN pending
              /\ call'.text = SentText(Message(pending[call'.row_index].line,
                                               pending[call'.row_index].is_new))
      ]_vars

\* a pass found entries to flush and no subscriber: the entries are gone,
\* and no call was made
C20_FlushedToNobody ==
    /\ pc = "tail"
    /\ nrows # <<>>
    /\ nsubs = <<>>
    /\ RowIndexes(nrows) \cap DOMAIN pending = {}
    /\ outbox = <<>>
    /\ call = NoCall
    /\ subscribers = <<>>

====
